---- MODULE Spec2Model ----
(***************************************************************************)
(* Fused row-wise softmax (python/tutorials/02-fused-softmax.py).          *)
(*                                                                         *)
(* Device memory is one flat array of cells; tensors are base addresses    *)
(* into it, as the kernels see them.  A kernel instance is a record of its *)
(* launch arguments and its registers; one action per block of statements  *)
(* between two accesses to device memory.                                  *)
(*                                                                         *)
(* Arithmetic is exact.  A float is one of                                 *)
(*    <<"fin", n>>   a finite number (a logit, or an exponential in units  *)
(*                   of 2^-ExpShift),                                      *)
(*    <<"-inf", 0>>, <<"+inf", 0>>, <<"nan", 0>>,                          *)
(*    <<"q", n, d>>  the quotient n/d in lowest terms,                     *)
(*    <<"uninit", 0>> a cell of torch.empty_like that nobody wrote.        *)
(* tl.exp is the given primitive; it is modelled by the exact base-2       *)
(* exponential, which like exp is strictly increasing, positive, 1 at 0    *)
(* and 0 at -inf.                                                          *)
(***************************************************************************)
EXTENDS Integers, Sequences, FiniteSets, TLC

\* ------------------------------------------------------------------ bounds
\* Largest number of columns of a modelled matrix.
MaxCols == 3
\* Largest number of rows of a modelled matrix (one kernel instance per row).
MaxRows == 2
\* Logits are drawn from 0..MaxVal.
MaxVal == 2
\* Half-width of the windows of column counts around the cut-over of the
\* dispatcher that SpecDispatch enumerates.
DispatchWindow == 12

Values == 0 .. MaxVal

\* ------------------------------------------------------- program constants
\* N_BLOCKS of softmax_kernel_big_row.
N_BLOCKS == 2
\* The literal of `BLOCK_SIZE >= 64*1024` in softmax().
BIG_ROW_THRESHOLD == 64 * 1024
\* The cut-overs the kernel specifications draw from.  Rows of 64*1024
\* columns are beyond MaxCols, so the two-tile dispatch is reached through
\* scaled-down powers of two; the spec lists the cut-over as a launch
\* parameter (section 6).  SpecDispatch keeps the literal.
Thresholds == {2, BIG_ROW_THRESHOLD}

\* ------------------------------------------------------------------ floats
Fin(n) == <<"fin", n>>
NEG_INF == <<"-inf", 0>>
POS_INF == <<"+inf", 0>>
NAN == <<"nan", 0>>
UNINIT == <<"uninit", 0>>

IsFin(a) == a[1] = "fin"
IsNaN(a) == a[1] \notin {"fin", "-inf", "+inf", "q"}

RECURSIVE GCD(_, _)
GCD(a, b) == IF b = 0 THEN a ELSE GCD(b, a % b)

RECURSIVE Pow2(_)
Pow2(e) == IF e <= 0 THEN 1 ELSE 2 * Pow2(e - 1)

\* Exponentials are held in units of 2^-ExpShift, so that exp(d) is an
\* integer for every difference d of two logits.
ExpShift == MaxVal
ExpUnit == Pow2(ExpShift)

\* n/d in lowest terms, d > 0.
Quot(n, d) == LET g == GCD(IF n < 0 THEN -n ELSE n, d) IN <<"q", n \div g, d \div g>>

\* a - b
Sub(a, b) ==
    CASE IsNaN(a) \/ IsNaN(b) -> NAN
      [] IsFin(a) /\ IsFin(b) -> Fin(a[2] - b[2])
      [] IsFin(a) /\ b = NEG_INF -> POS_INF
      [] IsFin(a) /\ b = POS_INF -> NEG_INF
      [] a = NEG_INF /\ b # NEG_INF -> NEG_INF
      [] a = POS_INF /\ b # POS_INF -> POS_INF
      [] OTHER -> NAN

\* a + b
Add(a, b) ==
    CASE IsNaN(a) \/ IsNaN(b) -> NAN
      [] IsFin(a) /\ IsFin(b) -> Fin(a[2] + b[2])
      [] IsFin(a) -> b
      [] IsFin(b) -> a
      [] a = b -> a
      [] OTHER -> NAN

\* tl.maximum(a, b)
Maximum(a, b) ==
    CASE IsNaN(a) \/ IsNaN(b) -> NAN
      [] a = POS_INF \/ b = POS_INF -> POS_INF
      [] a = NEG_INF -> b
      [] b = NEG_INF -> a
      [] OTHER -> IF a[2] >= b[2] THEN a ELSE b

\* tl.exp(a), in units of 2^-ExpShift.  Differences below -ExpShift are
\* beyond the resolution and flush to 0; no difference of two logits is.
Exp(a) ==
    CASE IsFin(a) -> (IF ExpShift + a[2] < 0 THEN Fin(0) ELSE Fin(Pow2(ExpShift + a[2])))
      [] a = NEG_INF -> Fin(0)
      [] a = POS_INF -> POS_INF
      [] OTHER -> NAN

\* a / b for a, b sums of exponentials (never negative).
Div(a, b) ==
    CASE IsNaN(a) \/ IsNaN(b) -> NAN
      [] IsFin(a) /\ IsFin(b) /\ b[2] > 0 -> Quot(a[2], b[2])
      [] IsFin(a) /\ IsFin(b) /\ a[2] = 0 -> NAN
      [] IsFin(a) /\ IsFin(b) -> POS_INF
      [] IsFin(a) -> Quot(0, 1)
      [] IsFin(b) -> a
      [] OTHER -> NAN

\* tl.max(row, axis=0): the reduction of a buffer by maximum.
RECURSIVE tl_max_reduce(_)
tl_max_reduce(row) ==
    IF row = <<>> THEN NEG_INF ELSE Maximum(Head(row), tl_max_reduce(Tail(row)))

\* tl.sum(row, axis=0): the reduction of a buffer by addition.
RECURSIVE tl_sum_reduce(_)
tl_sum_reduce(row) ==
    IF row = <<>> THEN Fin(0) ELSE Add(Head(row), tl_sum_reduce(Tail(row)))

\* Elementwise row - m, exp(row), row / s over a buffer.
SubAll(row, m) == [i \in 1 .. Len(row) |-> Sub(row[i], m)]
ExpAll(row) == [i \in 1 .. Len(row) |-> Exp(row[i])]
DivAll(row, s) == [i \in 1 .. Len(row) |-> Div(row[i], s)]

\* tl.arange(0, n): the lane offsets 0 .. n-1.
Arange(n) == [i \in 1 .. n |-> i - 1]

\* Python's range(start, stop, step) as the sequence of its values; a zero
\* step has none (the call raises).
RECURSIVE PyRange(_, _, _)
PyRange(start, stop, step) ==
    IF step = 0 THEN <<>>
    ELSE IF (step > 0 /\ start >= stop) \/ (step < 0 /\ start <= stop) THEN <<>>
    ELSE <<start>> \o PyRange(start + step, stop, step)

\* ------------------------------------------------------------------ state
VARIABLES
    mem,    \* device memory: address -> float
    host,   \* the call of softmax(x): its arguments and its locals
    inst    \* the kernel instances of the launch grid, 1 .. n

vars == <<mem, host, inst>>

SINGLE == "softmax_kernel"
BIG == "softmax_kernel_big_row"

\* A load or store touches mem only inside the allocation; a cell outside
\* it reads as uninitialised.
ReadCell(m, a) == IF a \in DOMAIN m THEN m[a] ELSE UNINIT

\* tl.load(ptrs, mask=mask, other=other)
tl_load(m, ptrs, mask, other) ==
    [i \in 1 .. Len(ptrs) |-> IF mask[i] THEN ReadCell(m, ptrs[i]) ELSE other]

\* tl.store(ptrs, value, mask=mask)
tl_store(m, ptrs, value, mask) ==
    [a \in DOMAIN m |->
        IF \E i \in 1 .. Len(ptrs) : mask[i] /\ ptrs[i] = a
        THEN value[CHOOSE i \in 1 .. Len(ptrs) : mask[i] /\ ptrs[i] = a]
        ELSE m[a]]

\* The addresses a masked access touches, in lane order.
Touched(ptrs, mask) == SelectSeq(ptrs, LAMBDA a : \E i \in 1 .. Len(ptrs) : ptrs[i] = a /\ mask[i])

\* Mutant of ColMask: the bound taken inclusive, col_offsets <= n_cols.
ColMaskInclusive(col_offsets, n_cols) == [i \in 1 .. Len(col_offsets) |-> col_offsets[i] <= n_cols]

\* mask = col_offsets < n_cols
ColMask(col_offsets, n_cols) == [i \in 1 .. Len(col_offsets) |-> col_offsets[i] < n_cols]

\* ptr + offsets
PtrAdd(ptr, offsets) == [i \in 1 .. Len(offsets) |-> ptr + offsets[i]]

SeqToSet(s) == {s[i] : i \in 1 .. Len(s)}

\* A kernel instance at its entry: the launch arguments and program_id(0).
NewInstance(k, output_ptr, input_ptr, input_row_stride, output_row_stride, n_cols, BLOCK_SIZE, row_idx) ==
    [kernel |-> k, output_ptr |-> output_ptr, input_ptr |-> input_ptr,
     input_row_stride |-> input_row_stride, output_row_stride |-> output_row_stride,
     n_cols |-> n_cols, BLOCK_SIZE |-> BLOCK_SIZE, row_idx |-> row_idx,
     launch |-> 1,       \* which launch on the stream
     pc |-> "entry",
     row |-> <<>>, tl_max |-> NEG_INF, tl_sum |-> Fin(0), softmax_output |-> <<>>,
     iter |-> <<>>,
     \* history, read by the properties only
     held |-> -1,        \* col_start of the tile in `row`
     loads |-> <<>>,     \* col_start of every tile load, in order
     reads |-> {},       \* addresses read
     writes |-> <<>>,    \* addresses written, in order
     max_of |-> {},      \* col_starts folded into tl_max
     sum_of |-> <<>>,    \* col_starts added to tl_sum, in order
     exp_log |-> {},     \* <<column, argument of exp, max_of then>>, in-range lanes
     div_log |-> {},     \* <<column, divisor, sum_of then>>, in-range lanes
     lanes_nan |-> FALSE \* some lane of some computed vector was not a number
    ]

\* Whether some lane of a computed vector is not a number.
HasNaN(v) == \E i \in 1 .. Len(v) : IsNaN(v[i])

\* The history of an exponentiation of `args`, the buffer holding the tile
\* at `col_start`: one entry per lane whose column is in range.
ExpLog(args, col_start, n_cols, max_of) ==
    {<<col_start + i - 1, args[i], max_of>> : i \in {j \in 1 .. Len(args) : col_start + j - 1 < n_cols}}

\* The history of a division by `s` of the lanes stored at `col_offsets`.
DivLog(col_offsets, n_cols, s, sum_of) ==
    {<<col_offsets[i], s, sum_of>> : i \in {j \in 1 .. Len(col_offsets) : col_offsets[j] < n_cols}}

\* ---------------------------------------------------------- softmax_kernel
\* row_start_ptr = input_ptr + row_idx * input_row_stride
RowStartPtr(I) == I.input_ptr + I.row_idx * I.input_row_stride
\* Mutant of OutputRowStartPtr: the row index not scaled by the stride.
OutputRowStartPtrUnscaled(I) == I.output_ptr + I.row_idx

\* output_row_start_ptr = output_ptr + row_idx * output_row_stride
OutputRowStartPtr(I) == I.output_ptr + I.row_idx * I.output_row_stride

\* Lines 71-80: the one masked load of the row.
sk_load(i) ==
    LET I == inst[i]
        col_offsets == Arange(I.BLOCK_SIZE)
        input_ptrs == PtrAdd(RowStartPtr(I), col_offsets)
        mask == ColMask(col_offsets, I.n_cols)
        row == tl_load(mem, input_ptrs, mask, NEG_INF)
    IN  /\ I.kernel = SINGLE
        /\ I.pc = "entry"
        /\ inst' = [inst EXCEPT ![i] =
                [I EXCEPT !.pc = "sk_compute", !.row = row, !.held = 0,
                          !.loads = Append(@, 0),
                          !.reads = @ \cup SeqToSet(Touched(input_ptrs, mask))]]
        /\ UNCHANGED <<mem, host>>

\* Lines 82-86: max, subtract, exp, sum, divide, all on chip.
sk_compute(i) ==
    LET I == inst[i]
        col_offsets == Arange(I.BLOCK_SIZE)
        row_max == tl_max_reduce(I.row)
        row_minus_max == SubAll(I.row, row_max)
        numerator == ExpAll(row_minus_max)
        denominator == tl_sum_reduce(numerator)
        softmax_output == DivAll(numerator, denominator)
    IN  /\ I.kernel = SINGLE
        /\ I.pc = "sk_compute"
        /\ inst' = [inst EXCEPT ![i] =
                [I EXCEPT !.pc = "sk_store", !.tl_max = row_max, !.tl_sum = denominator,
                          !.softmax_output = softmax_output,
                          !.max_of = {0}, !.sum_of = <<0>>,
                          !.exp_log = ExpLog(row_minus_max, 0, I.n_cols, {0}),
                          !.div_log = DivLog(col_offsets, I.n_cols, denominator, <<0>>),
                          !.lanes_nan = HasNaN(row_minus_max) \/ HasNaN(numerator)
                                        \/ IsNaN(denominator) \/ HasNaN(softmax_output)]]
        /\ UNCHANGED <<mem, host>>

\* Lines 88-90: the one masked store of the row.
sk_store(i) ==
    LET I == inst[i]
        col_offsets == Arange(I.BLOCK_SIZE)
        output_ptrs == PtrAdd(OutputRowStartPtr(I), col_offsets)
        mask == ColMask(col_offsets, I.n_cols)
    IN  /\ I.kernel = SINGLE
        /\ I.pc = "sk_store"
        /\ mem' = tl_store(mem, output_ptrs, I.softmax_output, mask)
        /\ inst' = [inst EXCEPT ![i] =
                [I EXCEPT !.pc = "done", !.writes = @ \o Touched(output_ptrs, mask)]]
        /\ UNCHANGED host

\* -------------------------------------------------- softmax_kernel_big_row
\* Mutant of TileSize: the halving left out.
TileSizeWhole(BLOCK_SIZE) == BLOCK_SIZE

\* BLOCK_SIZE = meta['BLOCK_SIZE'] // 2: the tile size.
TileSize(BLOCK_SIZE) == BLOCK_SIZE \div 2

\* Mutants of the loop ranges: the max loop one tile short; the max loop
\* run downwards; the sum loop stopping at 0 instead of -1; the output
\* loop starting again at tile 0.
MaxLoopRangeShort(tile) == PyRange(0, (N_BLOCKS - 1) * tile, tile)
MaxLoopRangeDescending(tile) == PyRange((N_BLOCKS - 1) * tile, -1, -tile)
SumLoopRangeStopZero(tile) == PyRange((N_BLOCKS - 2) * tile, 0, -tile)
OutLoopRangeFromZero(tile) == PyRange(0, N_BLOCKS * tile, tile)

\* The col_start values of the three loops.
MaxLoopRange(tile) == PyRange(0, N_BLOCKS * tile, tile)
SumLoopRange(tile) == PyRange((N_BLOCKS - 2) * tile, -1, -tile)
OutLoopRange(tile) == PyRange(tile, N_BLOCKS * tile, tile)

\* Where control goes when a loop is reached with `iter` left to run.
LoopOr(iter, body, exit) == IF iter = <<>> THEN exit ELSE body

\* The masked load of the tile at col_start (lines 121-123, 130-132, 145-147).
TilePtrs(I, col_start) == PtrAdd(RowStartPtr(I), PtrAdd(col_start, Arange(TileSize(I.BLOCK_SIZE))))
TileMask(I, col_start) == ColMask(PtrAdd(col_start, Arange(TileSize(I.BLOCK_SIZE))), I.n_cols)
\* Mutant of LoadTile: masked lanes filled with 0 instead of -inf.
LoadTileZeroFill(m, I, col_start) == tl_load(m, TilePtrs(I, col_start), TileMask(I, col_start), Fin(0))
LoadTile(m, I, col_start) == tl_load(m, TilePtrs(I, col_start), TileMask(I, col_start), NEG_INF)

\* What every tile load leaves in the instance.
Loaded(I, col_start) ==
    [I EXCEPT !.row = LoadTile(mem, I, col_start), !.held = col_start,
              !.loads = Append(@, col_start),
              !.reads = @ \cup SeqToSet(Touched(TilePtrs(I, col_start), TileMask(I, col_start)))]

\* Lines 103-120: the locals; a tile size of 0 makes range() raise.
br_entry(i) ==
    LET I == inst[i]
        tile == TileSize(I.BLOCK_SIZE)
        iter == MaxLoopRange(tile)
    IN  /\ I.kernel = BIG
        /\ I.pc = "entry"
        /\ inst' = [inst EXCEPT ![i] =
                [I EXCEPT !.pc = IF tile = 0 THEN "fault" ELSE LoopOr(iter, "br_max", "br_sum_last"),
                          !.row = [j \in 1 .. tile |-> Fin(0)],
                          !.tl_max = NEG_INF,
                          !.iter = iter]]
        /\ UNCHANGED <<mem, host>>

\* Lines 121-124: one pass of the max loop.
br_max(i) ==
    LET I == inst[i]
        col_start == Head(I.iter)
        L == Loaded(I, col_start)
    IN  /\ I.kernel = BIG
        /\ I.pc = "br_max"
        /\ inst' = [inst EXCEPT ![i] =
                [L EXCEPT !.tl_max = Maximum(I.tl_max, tl_max_reduce(L.row)),
                          !.max_of = @ \cup {col_start},
                          !.iter = Tail(@),
                          !.pc = LoopOr(Tail(I.iter), "br_max", "br_sum_last")]]
        /\ UNCHANGED <<mem, host>>

\* Line 127: the sum starts from the buffer as the max loop left it.
br_sum_last(i) ==
    LET I == inst[i]
        tile == TileSize(I.BLOCK_SIZE)
        args == SubAll(I.row, I.tl_max)
        terms == ExpAll(args)
        tl_sum == tl_sum_reduce(terms)
        iter == SumLoopRange(tile)
    IN  /\ I.kernel = BIG
        /\ I.pc = "br_sum_last"
        /\ inst' = [inst EXCEPT ![i] =
                [I EXCEPT !.tl_sum = tl_sum,
                          !.sum_of = <<I.held>>,
                          !.exp_log = @ \cup ExpLog(args, I.held, I.n_cols, I.max_of),
                          !.lanes_nan = @ \/ HasNaN(args) \/ HasNaN(terms) \/ IsNaN(tl_sum),
                          !.iter = iter,
                          !.pc = LoopOr(iter, "br_sum", "br_out_first")]]
        /\ UNCHANGED <<mem, host>>

\* Lines 130-133: one pass of the sum loop.
br_sum(i) ==
    LET I == inst[i]
        col_start == Head(I.iter)
        L == Loaded(I, col_start)
        args == SubAll(L.row, I.tl_max)
        terms == ExpAll(args)
        tl_sum == Add(I.tl_sum, tl_sum_reduce(terms))
    IN  /\ I.kernel = BIG
        /\ I.pc = "br_sum"
        /\ inst' = [inst EXCEPT ![i] =
                [L EXCEPT !.tl_sum = tl_sum,
                          !.sum_of = Append(@, col_start),
                          !.exp_log = @ \cup ExpLog(args, col_start, I.n_cols, I.max_of),
                          !.lanes_nan = @ \/ HasNaN(args) \/ HasNaN(terms) \/ IsNaN(tl_sum),
                          !.iter = Tail(@),
                          !.pc = LoopOr(Tail(I.iter), "br_sum", "br_out_first")]]
        /\ UNCHANGED <<mem, host>>

\* Lines 135-141: the first output tile, from the buffer as the sum loop
\* left it, stored at col_offsets_base.
br_out_first(i) ==
    LET I == inst[i]
        tile == TileSize(I.BLOCK_SIZE)
        col_offsets == Arange(tile)
        args == SubAll(I.row, I.tl_max)
        terms == ExpAll(args)
        softmax_output == DivAll(terms, I.tl_sum)
        output_ptrs == PtrAdd(OutputRowStartPtr(I), col_offsets)
        mask == ColMask(col_offsets, I.n_cols)
        iter == OutLoopRange(tile)
    IN  /\ I.kernel = BIG
        /\ I.pc = "br_out_first"
        /\ mem' = tl_store(mem, output_ptrs, softmax_output, mask)
        /\ inst' = [inst EXCEPT ![i] =
                [I EXCEPT !.softmax_output = softmax_output,
                          !.writes = @ \o Touched(output_ptrs, mask),
                          !.exp_log = @ \cup ExpLog(args, I.held, I.n_cols, I.max_of),
                          !.div_log = @ \cup DivLog(col_offsets, I.n_cols, I.tl_sum, I.sum_of),
                          !.lanes_nan = @ \/ HasNaN(args) \/ HasNaN(terms) \/ HasNaN(softmax_output),
                          !.iter = iter,
                          !.pc = LoopOr(iter, "br_out_load", "done")]]
        /\ UNCHANGED host

\* Lines 145-147: the reload of an output tile.
br_out_load(i) ==
    LET I == inst[i]
        col_start == Head(I.iter)
    IN  /\ I.kernel = BIG
        /\ I.pc = "br_out_load"
        /\ inst' = [inst EXCEPT ![i] = [Loaded(I, col_start) EXCEPT !.pc = "br_out_store"]]
        /\ UNCHANGED <<mem, host>>

\* Lines 148-150: normalise and store that tile.
br_out_store(i) ==
    LET I == inst[i]
        tile == TileSize(I.BLOCK_SIZE)
        col_start == Head(I.iter)
        col_offsets == PtrAdd(col_start, Arange(tile))
        args == SubAll(I.row, I.tl_max)
        terms == ExpAll(args)
        softmax_output == DivAll(terms, I.tl_sum)
        output_ptrs == PtrAdd(OutputRowStartPtr(I), col_offsets)
        mask == ColMask(col_offsets, I.n_cols)
    IN  /\ I.kernel = BIG
        /\ I.pc = "br_out_store"
        /\ mem' = tl_store(mem, output_ptrs, softmax_output, mask)
        /\ inst' = [inst EXCEPT ![i] =
                [I EXCEPT !.softmax_output = softmax_output,
                          !.writes = @ \o Touched(output_ptrs, mask),
                          !.exp_log = @ \cup ExpLog(args, I.held, I.n_cols, I.max_of),
                          !.div_log = @ \cup DivLog(col_offsets, I.n_cols, I.tl_sum, I.sum_of),
                          !.lanes_nan = @ \/ HasNaN(args) \/ HasNaN(terms) \/ HasNaN(softmax_output),
                          !.iter = Tail(@),
                          !.pc = LoopOr(Tail(I.iter), "br_out_load", "done")]]
        /\ UNCHANGED host

\* --------------------------------------------------------------- softmax()
\* triton.next_power_of_2(n): the smallest power of two >= n.
RECURSIVE PowerOf2From(_, _)
PowerOf2From(n, p) == IF p >= n THEN p ELSE PowerOf2From(n, 2 * p)
next_power_of_2(n) == PowerOf2From(n, 1)

\* Lines 164-170.
NumWarps(BLOCK_SIZE) ==
    IF BLOCK_SIZE >= 8096 THEN 32
    ELSE IF BLOCK_SIZE >= 4096 THEN 16
    ELSE IF BLOCK_SIZE >= 2048 THEN 8
    ELSE 4

\* Mutant of SelectKernel: the comparison taken strict.
SelectKernelStrict(BLOCK_SIZE, threshold) == IF BLOCK_SIZE > threshold THEN BIG ELSE SINGLE

\* Lines 171-173.
SelectKernel(BLOCK_SIZE, threshold) == IF BLOCK_SIZE >= threshold THEN BIG ELSE SINGLE

\* Lines 157-173: BLOCK_SIZE, num_warps and the kernel, from the shape alone.
softmax_config ==
    /\ host.pc = "call"
    /\ host' = [host EXCEPT !.pc = "configured",
                            !.BLOCK_SIZE = next_power_of_2(host.n_cols),
                            !.num_warps = NumWarps(next_power_of_2(host.n_cols)),
                            !.k = SelectKernel(next_power_of_2(host.n_cols), host.threshold)]
    /\ UNCHANGED <<mem, inst>>

\* Lines 175-186: y = torch.empty_like(x) behind everything allocated so
\* far, then one instance of k per row; y is contiguous.
softmax_launch ==
    LET y_ptr == Cardinality(DOMAIN mem)
        y_stride == host.n_cols
    IN  /\ host.pc = "configured"
        /\ host' = [host EXCEPT !.pc = "launched", !.y_ptr = y_ptr]
        /\ mem' = [a \in 0 .. (y_ptr + host.n_rows * host.n_cols - 1) |->
                      IF a < y_ptr THEN mem[a] ELSE UNINIT]
        /\ inst' = [r \in 1 .. host.n_rows |->
                      NewInstance(host.k, y_ptr, host.x_ptr, host.x_stride, y_stride,
                                  host.n_cols, host.BLOCK_SIZE, r - 1)]

\* The call softmax(x) before its first line.
HostCall(n_rows, n_cols, x_stride, threshold) ==
    [pc |-> "call", n_rows |-> n_rows, n_cols |-> n_cols, x_ptr |-> 0,
     x_stride |-> x_stride, threshold |-> threshold,
     BLOCK_SIZE |-> 0, num_warps |-> 0, k |-> "", y_ptr |-> 0]

\* ------------------------------------------------------------ the inputs
\* What lies in a row of x beyond its last column when x is a view of a
\* wider tensor: a value above every logit.
PadValue == Fin(MaxVal + 1)

\* Row r (from 0) of the matrix whose first row is `base`: the first row
\* skewed by r per column, so that the rows differ.
RowOf(base, r) == [c \in 1 .. Len(base) |-> (base[c] + r * c) % (MaxVal + 1)]

\* The cells of an n_rows x Len(base) matrix with the given row stride.
MatrixMem(base, n_rows, stride) ==
    [a \in 0 .. (n_rows * stride - 1) |->
        IF a % stride < Len(base) THEN Fin(RowOf(base, a \div stride)[(a % stride) + 1])
        ELSE PadValue]

\* The logits of row r of x, as the caller wrote them.
InputRow(r) ==
    [c \in 1 .. host.n_cols |-> mem[host.x_ptr + r * host.x_stride + (c - 1)][2]]

\* ------------------------------------------------------- specifications
\* Spec: softmax(x) on a contiguous n_rows x n_cols matrix; the instances
\* of the grid run in any interleaving.
Init ==
    \E n_rows \in 1 .. MaxRows, n_cols \in 0 .. MaxCols, threshold \in Thresholds :
        \E base \in [1 .. n_cols -> Values] :
            /\ host = HostCall(n_rows, n_cols, n_cols, threshold)
            /\ mem = MatrixMem(base, n_rows, n_cols)
            /\ inst = <<>>

\* Instances of one launch are unordered; a later launch on the stream
\* starts when the earlier one has ended.
Ended(I) == I.pc \in {"done", "fault"}
Ready(i) == \A j \in DOMAIN inst : inst[j].launch < inst[i].launch => Ended(inst[j])

Next ==
    \/ softmax_config
    \/ softmax_launch
    \/ \E i \in DOMAIN inst : Ready(i) /\ sk_load(i)
    \/ \E i \in DOMAIN inst : Ready(i) /\ sk_compute(i)
    \/ \E i \in DOMAIN inst : Ready(i) /\ sk_store(i)
    \/ \E i \in DOMAIN inst : Ready(i) /\ br_entry(i)
    \/ \E i \in DOMAIN inst : Ready(i) /\ br_max(i)
    \/ \E i \in DOMAIN inst : Ready(i) /\ br_sum_last(i)
    \/ \E i \in DOMAIN inst : Ready(i) /\ br_sum(i)
    \/ \E i \in DOMAIN inst : Ready(i) /\ br_out_first(i)
    \/ \E i \in DOMAIN inst : Ready(i) /\ br_out_load(i)
    \/ \E i \in DOMAIN inst : Ready(i) /\ br_out_store(i)

Spec == Init /\ [][Next]_vars

\* SpecDispatch: the configuration softmax() computes, for column counts
\* up to MaxCols and around the cut-over 64*1024 and its half.
DispatchCols ==
    (0 .. MaxCols)
    \cup ((BIG_ROW_THRESHOLD \div 2 - DispatchWindow) .. (BIG_ROW_THRESHOLD \div 2 + DispatchWindow))
    \cup ((BIG_ROW_THRESHOLD - DispatchWindow) .. (BIG_ROW_THRESHOLD + DispatchWindow))

InitDispatch ==
    \E n_cols \in DispatchCols :
        /\ host = HostCall(1, n_cols, n_cols, BIG_ROW_THRESHOLD)
        /\ mem = <<>>
        /\ inst = <<>>

NextDispatch == softmax_config

SpecDispatch == InitDispatch /\ [][NextDispatch]_vars

\* SpecPair: two launches on one stream over one row of n_cols logits, each
\* of a kernel called directly with a power-of-two BLOCK_SIZE >= n_cols.
\* Either the two kernels on the same input ("paths"), or one kernel on two
\* inputs that differ only beyond the last column ("pad"); host holds the
\* shape of the row and, as its pc, which of the two it is.
MaxBlock == 2 * next_power_of_2(MaxCols)
BlockSizes(n_cols) == {p \in 1 .. MaxBlock : p >= n_cols /\ p = next_power_of_2(p)}

\* One row of logits in a buffer of MaxBlock cells, `fill` beyond the row.
RowMem(base, fill) == [a \in 0 .. (MaxBlock - 1) |-> IF a < Len(base) THEN Fin(base[a + 1]) ELSE fill]

\* Buffers laid end to end from address 0.
Concat(m1, m2) ==
    LET n1 == Cardinality(DOMAIN m1)
    IN  [a \in 0 .. (n1 + Cardinality(DOMAIN m2) - 1) |-> IF a < n1 THEN m1[a] ELSE m2[a - n1]]

EmptyMem(n) == [a \in 0 .. (n - 1) |-> UNINIT]

InitPair ==
    \E n_cols \in 0 .. MaxCols :
      \E base \in [1 .. n_cols -> Values], BLOCK_SIZE \in BlockSizes(n_cols), fill \in Values,
         mode \in {"paths", "pad"}, k \in {SINGLE, BIG} :
        /\ mode = "paths" => (k = SINGLE /\ fill = 0)
        /\ host = [HostCall(1, n_cols, MaxBlock, BIG_ROW_THRESHOLD) EXCEPT !.pc = mode]
        /\ mem = Concat(Concat(RowMem(base, PadValue), RowMem(base, Fin(fill))), EmptyMem(2 * MaxBlock))
        /\ inst = << [NewInstance(k, 2 * MaxBlock, 0, MaxBlock, MaxBlock, n_cols, BLOCK_SIZE, 0)
                        EXCEPT !.launch = 1],
                     [NewInstance(IF mode = "paths" THEN BIG ELSE k, 3 * MaxBlock,
                                  IF mode = "paths" THEN 0 ELSE MaxBlock,
                                  MaxBlock, MaxBlock, n_cols, BLOCK_SIZE, 0)
                        EXCEPT !.launch = 2] >>

NextPair ==
    \/ \E i \in DOMAIN inst : Ready(i) /\ sk_load(i)
    \/ \E i \in DOMAIN inst : Ready(i) /\ sk_compute(i)
    \/ \E i \in DOMAIN inst : Ready(i) /\ sk_store(i)
    \/ \E i \in DOMAIN inst : Ready(i) /\ br_entry(i)
    \/ \E i \in DOMAIN inst : Ready(i) /\ br_max(i)
    \/ \E i \in DOMAIN inst : Ready(i) /\ br_sum_last(i)
    \/ \E i \in DOMAIN inst : Ready(i) /\ br_sum(i)
    \/ \E i \in DOMAIN inst : Ready(i) /\ br_out_first(i)
    \/ \E i \in DOMAIN inst : Ready(i) /\ br_out_load(i)
    \/ \E i \in DOMAIN inst : Ready(i) /\ br_out_store(i)

SpecPair == InitPair /\ [][NextPair]_vars

\* ------------------------------------------------------------- reference
\* naive_softmax on one row of integer logits: max, subtract, exp, sum,
\* divide, each over the whole row.
RECURSIVE SumInts(_)
SumInts(xs) == IF xs = <<>> THEN 0 ELSE Head(xs) + SumInts(Tail(xs))

RowMaxOf(xs) == CHOOSE m \in SeqToSet(xs) : \A v \in SeqToSet(xs) : v <= m

naive_softmax(xs) ==
    LET x_max == RowMaxOf(xs)
        z == [c \in 1 .. Len(xs) |-> xs[c] - x_max]
        numerator == [c \in 1 .. Len(xs) |-> Pow2(ExpShift + z[c])]
        denominator == SumInts(numerator)
        ret == [c \in 1 .. Len(xs) |-> Quot(numerator[c], denominator)]
    IN  ret

\* The denominator of naive_softmax, in units of 2^-ExpShift.
naive_denominator(xs) ==
    SumInts([c \in 1 .. Len(xs) |-> Pow2(ExpShift + xs[c] - RowMaxOf(xs))])

\* The launched instances.
Launched == DOMAIN inst
\* The instances of softmax_kernel_big_row.
BigInstances == {i \in DOMAIN inst : inst[i].kernel = BIG}
\* The cell of y at row r, column c (both from 0), y contiguous.
OutputCell(r, c) == mem[host.y_ptr + r * host.n_cols + c]
\* The col_start of every tile of an instance of softmax_kernel_big_row.
TilesOf(I) == SeqToSet(MaxLoopRange(TileSize(I.BLOCK_SIZE)))
\* How often x occurs in the sequence s.
Count(s, x) == Cardinality({j \in 1 .. Len(s) : s[j] = x})

\* ------------------------------------------------------------------ C1
\* C1: once the instance of a row of softmax(x), N >= 1, has ended, every
\* in-range column c of that row of y holds
\* exp(x[c] - rowmax) / sum_c' exp(x[c'] - rowmax), whichever kernel ran.
C1_Correct ==
    \A i \in Launched :
        (host.pc = "launched" /\ host.n_cols >= 1 /\ Ended(inst[i])) =>
            LET expected == naive_softmax(InputRow(inst[i].row_idx))
            IN  /\ inst[i].pc = "done"
                /\ \A c \in 0 .. host.n_cols - 1 :
                       OutputCell(inst[i].row_idx, c) = expected[c + 1]

\* A two-tile row with a partial second tile and unequal logits is done.
C1_Witness ==
    \E i \in Launched :
        /\ host.pc = "launched" /\ inst[i].pc = "done" /\ inst[i].kernel = BIG
        /\ host.n_cols = 3
        /\ InputRow(inst[i].row_idx) = <<0, 1, 0>>
        /\ OutputCell(inst[i].row_idx, 1) = Quot(2, 4)

\* ------------------------------------------------------------------ C4
\* C4: an instance of softmax_kernel_big_row never loads a tile more than
\* twice, and when it has ended it has made fewer than 3 * N_BLOCKS loads.
C4_ReloadBound ==
    \A i \in BigInstances :
        /\ \A t \in SeqToSet(inst[i].loads) : Count(inst[i].loads, t) <= 2
        /\ SeqToSet(inst[i].loads) \subseteq TilesOf(inst[i])
        /\ inst[i].pc = "done" => Len(inst[i].loads) < 3 * N_BLOCKS

\* A two-tile row is done, each of its tiles loaded exactly twice.
C4_Witness ==
    \E i \in BigInstances :
        /\ inst[i].pc = "done"
        /\ inst[i].n_cols >= 1
        /\ \A t \in TilesOf(inst[i]) : Count(inst[i].loads, t) = 2

\* ------------------------------------------------------------------ C6
\* The addresses of the in-range cells of row r of x, and of row r of y.
InputCells(r) == {host.x_ptr + r * host.x_stride + c : c \in 0 .. host.n_cols - 1}
OutputCells(r) == {host.y_ptr + r * host.n_cols + c : c \in 0 .. host.n_cols - 1}

\* C6: in every interleaving of the instances of one launch, the instance
\* of row r reads only in-range cells of row r of x and writes only
\* in-range cells of row r of y, none twice and, once done, each once; two
\* instances never write the same cell; and when all have ended, row r of
\* y is the softmax of row r of x alone.
C6_RowIndependence ==
    host.pc = "launched" =>
        /\ \A i \in Launched :
              /\ inst[i].reads \subseteq InputCells(inst[i].row_idx)
              /\ SeqToSet(inst[i].writes) \subseteq OutputCells(inst[i].row_idx)
              /\ \A a \in SeqToSet(inst[i].writes) : Count(inst[i].writes, a) = 1
              /\ inst[i].pc = "done" => SeqToSet(inst[i].writes) = OutputCells(inst[i].row_idx)
        /\ \A i, j \in Launched :
              i # j => SeqToSet(inst[i].writes) \cap SeqToSet(inst[j].writes) = {}
        /\ (\A i \in Launched : Ended(inst[i])) =>
              \A r \in 0 .. host.n_rows - 1 :
                  host.n_cols >= 1 =>
                      LET expected == naive_softmax(InputRow(r))
                      IN  \A c \in 0 .. host.n_cols - 1 : OutputCell(r, c) = expected[c + 1]

\* Two rows in flight: one instance has stored its whole row while the
\* other is still between its loads.
C6_Witness ==
    /\ host.pc = "launched" /\ host.n_rows >= 2 /\ host.n_cols >= 3
    /\ \E i, j \in Launched :
          /\ i # j
          /\ inst[i].pc = "done" /\ Len(inst[i].writes) = host.n_cols
          /\ inst[j].pc = "br_sum" /\ inst[j].reads # {}
          /\ InputRow(inst[i].row_idx) # InputRow(inst[j].row_idx)

\* ------------------------------------------------------------------ C7
\* C7 (as claimed): for N = 0 the configuration has a power-of-two
\* BLOCK_SIZE, and the kernel neither computes a value that is not a number
\* nor divides by the sum of no elements, and writes no cell.
C7_EmptyRowGuarded ==
    host.n_cols = 0 =>
        /\ host.pc # "call" => \E e \in 0 .. 20 : host.BLOCK_SIZE = Pow2(e)
        /\ \A i \in Launched :
              /\ ~inst[i].lanes_nan
              /\ inst[i].div_log = {}
              /\ inst[i].pc \in {"sk_store", "done"} => ~IsNaN(inst[i].tl_sum)
              /\ inst[i].writes = <<>>

\* ------------------------------------------------------------------ C8
\* C8: in softmax_kernel_big_row every exponentiation of an in-range
\* element happens with every tile folded into tl_max, its argument being
\* x[c] - rowmax <= 0; every division happens with every tile added to
\* tl_sum exactly once, the divisor being the sum over all N columns.
C8_PhaseOrder ==
    \A i \in BigInstances :
        LET I == inst[i]
            xs == InputRow(I.row_idx)
            tiles == TilesOf(I)
            row_max == RowMaxOf(xs)
            row_sum == Fin(naive_denominator(xs))
        IN  /\ \A e \in I.exp_log :
                  /\ e[3] = tiles
                  /\ e[2] = Fin(xs[e[1] + 1] - row_max)
                  /\ e[2][2] <= 0
            /\ \A d \in I.div_log :
                  /\ SeqToSet(d[3]) = tiles
                  /\ Len(d[3]) = Cardinality(tiles)
                  /\ d[2] = row_sum
            /\ I.pc = "done" => {d[1] : d \in I.div_log} = 0 .. I.n_cols - 1

\* A two-tile row with its maximum in the second tile is done.
C8_Witness ==
    \E i \in BigInstances :
        /\ inst[i].pc = "done" /\ inst[i].n_cols = 3
        /\ InputRow(inst[i].row_idx) = <<0, 0, 1>>
        /\ Cardinality(inst[i].exp_log) = 3
        /\ Cardinality(inst[i].div_log) = 3

\* ------------------------------------------------------------------ C9
\* C9: where softmax_kernel_big_row uses `row` without loading it, the
\* buffer holds the masked tile it is used as: the last tile when tl_sum is
\* initialised, tile 0 when the first output tile is normalised, and that
\* tile is stored at the columns [0, tile size).
C9_CacheDiscipline ==
    \A i \in BigInstances :
        LET I == inst[i]
            tile == TileSize(I.BLOCK_SIZE)
            xs == InputRow(I.row_idx)
            expected == naive_softmax(xs)
        IN  /\ I.pc = "br_sum_last" =>
                  /\ I.held = (N_BLOCKS - 1) * tile
                  /\ I.row = [l \in 1 .. tile |->
                                 IF I.held + l - 1 < I.n_cols THEN Fin(xs[I.held + l]) ELSE NEG_INF]
            /\ I.pc = "br_out_first" =>
                  /\ I.held = 0
                  /\ I.row = [l \in 1 .. tile |->
                                 IF l - 1 < I.n_cols THEN Fin(xs[l]) ELSE NEG_INF]
            /\ I.pc \in {"br_out_load", "br_out_store", "done"} =>
                  \A l \in 1 .. tile :
                      l - 1 < I.n_cols =>
                          /\ I.writes[l] = OutputRowStartPtr(I) + l - 1
                          /\ mem[I.writes[l]] = expected[l]

\* The sum is about to start from the cached last tile, whose content
\* differs from tile 0.
C9_Witness ==
    \E i \in BigInstances :
        /\ inst[i].pc = "br_sum_last" /\ inst[i].n_cols = 3
        /\ inst[i].row = <<Fin(1), NEG_INF>>
        /\ InputRow(inst[i].row_idx) = <<0, 0, 1>>

ColumnsWritten(I) == {a - OutputRowStartPtr(I) : a \in SeqToSet(I.writes)}
ValueAt(I, c) == mem[OutputRowStartPtr(I) + c]

\* Both kernels have run on the same row with the same BLOCK_SIZE.
PathsRan == host.pc = "paths" /\ host.n_cols >= 1 /\ \A i \in Launched : Ended(inst[i])

\* Both runs wrote the same columns and the same values at every column < N.
PathsAgree ==
    /\ ColumnsWritten(inst[1]) = ColumnsWritten(inst[2])
    /\ \A c \in 0 .. host.n_cols - 1 : ValueAt(inst[1], c) = ValueAt(inst[2], c)

\* C2 (as claimed): for a row of N >= 1 logits and any power-of-two
\* BLOCK_SIZE >= N, softmax_kernel and softmax_kernel_big_row write the
\* same columns and the same values.
C2_PathEquivalence_AnyBlock == PathsRan => PathsAgree

\* C2 (amended): the same for every power-of-two BLOCK_SIZE >= max(N, 2),
\* both kernels running to their end.
C2_PathEquivalence ==
    (PathsRan /\ inst[1].BLOCK_SIZE >= 2) =>
        /\ \A i \in Launched : inst[i].pc = "done"
        /\ PathsAgree
        /\ ColumnsWritten(inst[1]) = 0 .. host.n_cols - 1

\* Both kernels are done on a row of 3 unequal logits with BLOCK_SIZE 8,
\* the second tile of the two-tile kernel holding no column at all.
C2_Witness ==
    /\ PathsRan
    /\ inst[1].kernel = SINGLE /\ inst[2].kernel = BIG
    /\ inst[1].BLOCK_SIZE = 8 /\ inst[2].BLOCK_SIZE = 8
    /\ host.n_cols = 3 /\ InputRow(0) = <<1, 0, 1>>
    /\ ValueAt(inst[2], 1) = Quot(1, 5)

\* ------------------------------------------------------------------ C3
\* The lanes of the buffer of an instance whose column is not below N.
MaskedLanes(I) ==
    {l \in 1 .. Len(I.row) : I.held >= 0 /\ I.held + l - 1 >= I.n_cols}

\* C3: a kernel never reads a cell at a column >= N, and the lanes of its
\* buffer at such columns hold -inf; two runs of one kernel on inputs that
\* differ only beyond column N-1 end with the same maximum, the same sum,
\* the same columns written and the same values.
C3_PaddingNonLeakage ==
    host.pc = "pad" =>
        /\ \A i \in Launched :
              /\ inst[i].reads \subseteq {inst[i].input_ptr + c : c \in 0 .. host.n_cols - 1}
              /\ \A l \in MaskedLanes(inst[i]) : inst[i].row[l] = NEG_INF
              /\ (host.n_cols >= 1 /\ inst[i].pc = "done") =>
                    /\ inst[i].tl_max = Fin(RowMaxOf(InputRow(0)))
                    /\ inst[i].tl_sum = Fin(naive_denominator(InputRow(0)))
        /\ (\A i \in Launched : Ended(inst[i])) =>
              /\ inst[1].pc = inst[2].pc
              /\ inst[1].tl_max = inst[2].tl_max
              /\ inst[1].tl_sum = inst[2].tl_sum
              /\ ColumnsWritten(inst[1]) = ColumnsWritten(inst[2])
              /\ \A c \in 0 .. host.n_cols - 1 : ValueAt(inst[1], c) = ValueAt(inst[2], c)

\* Two runs of the two-tile kernel are done on a row of 3 logits in tiles
\* of 2, the cell behind the row holding different values in the two inputs.
C3_Witness ==
    /\ host.pc = "pad" /\ host.n_cols = 3
    /\ \A i \in Launched : inst[i].pc = "done" /\ inst[i].kernel = BIG /\ inst[i].BLOCK_SIZE = 4
    /\ mem[inst[1].input_ptr + 3] # mem[inst[2].input_ptr + 3]
    /\ \A c \in 0 .. 2 : mem[inst[1].input_ptr + c] = mem[inst[2].input_ptr + c]

\* ------------------------------------------------------------------ C5
IsPowerOfTwo(p) == \E e \in 0 .. 20 : p = Pow2(e)

\* The tiles of the configured path: <<first column, size>> of each.
ConfiguredTiles ==
    IF host.k = SINGLE THEN {<<0, host.BLOCK_SIZE>>}
    ELSE {<<t, TileSize(host.BLOCK_SIZE)>> : t \in SeqToSet(MaxLoopRange(TileSize(host.BLOCK_SIZE)))}

====
